---------------------------- MODULE Spec2Model ----------------------------
(***************************************************************************)
(* A model of the collector's in-memory trace data model:                  *)
(*   - the dual-representation TraceID (internal/data/traceid.go)          *)
(*   - the Traces root and its bridging/clone/wire operations              *)
(*     (consumer/pdata/trace.go)                                           *)
(* Byte strings and Go strings are sequences of byte values 0..255.        *)
(***************************************************************************)
EXTENDS Integers, Sequences, FiniteSets, TLC

VARIABLES
    tid,      \* the TraceID under test (struct fields id, idSlice, useIdSlice)
    that,     \* a second TraceID: Equal's argument / a round trip's target
    last,     \* the last call made on tid: [op, arg, err]
    eq,       \* what tid.Equal(that) returned: "true", "false"; "none" before a call
    heap,     \* the Go heap: a sequence of objects, an address is an index
    owner,    \* the external owner's variable orig []*ResourceSpans: [arr, len]
    td,       \* a Traces value: the address its orig field holds (0: nil)
    cl,       \* the Traces returned by td.Clone() (0: not cloned yet)
    shared,   \* history: how many leading elements td and the owner have both
              \* held since TracesFromOtlp (-1: td is not a bridge)
    fault,    \* TRUE once a call has panicked
    sent,     \* the bytes the last step handed to td.FromOtlpProtoBytes
    ret,      \* what the last step returned when it was td.FromOtlpProtoBytes:
              \* "nil", "error" or "panic"; "none" after any other step
    status,   \* a span's otlptrace.Status: [code, deprecated]
    calls,    \* the codes handed to SpanStatus.SetCode so far, oldest first
    batch,    \* the Traces handed to the Kafka exporter, by value
    outcome   \* the last exporter call and everything it returned or did

idVars == <<tid, that, last, eq>>
trVars == <<heap, owner, td, cl, shared, fault, sent, ret>>
exVars == <<status, calls, batch, outcome>>
vars == <<tid, that, last, eq, heap, owner, td, cl, shared, fault, sent, ret,
          status, calls, batch, outcome>>

(***************************************************************************)
(* Bounds and input sets                                                   *)
(***************************************************************************)
traceIDSize == 16

\* Short byte strings have 0..MaxShort bytes.
MaxShort == 2

ByteVals == {0, 170}

\* Lower-case hex text of a byte string, used to write the JSON inputs
HexEncodeIn(b) ==
    LET dg(d) == IF d < 10 THEN 48 + d ELSE 87 + d
    IN [i \in 1..(2 * Len(b)) |->
           IF i % 2 = 1 THEN dg(b[(i + 1) \div 2] \div 16)
                        ELSE dg(b[i \div 2] % 16)]

Pat(n, a, b) == [i \in 1..n |-> IF i = 1 THEN a ELSE b]

Samples(n) == {Pat(n, a, b) : a, b \in ByteVals}

\* [16]byte arguments of NewTraceID
ArrayInputs == Samples(traceIDSize)

\* []byte arguments of NewTraceIDWithUnlimitedSize and Unmarshal
DataLens == (0..MaxShort) \cup {traceIDSize, 20}

DataInputs == UNION {Samples(n) : n \in DataLens}

\* JSON texts handed to UnmarshalJSON: quoted hex of short ids and of fixed
\* arrays, texts of exactly traceIDSize characters (bare and quoted), and
\* two malformed texts ("zz" and "a").
JsonInputs ==
    {<<34>> \o HexEncodeIn(d) \o <<34>> :
        d \in UNION {Samples(n) : n \in 0..MaxShort} \cup ArrayInputs}
    \cup {HexEncodeIn(d) : d \in Samples(traceIDSize \div 2)}
    \cup {<<34>> \o HexEncodeIn(d) \o <<34>> : d \in Samples(traceIDSize \div 2 - 1)}
    \cup {<<34, 122, 122, 34>>, <<34, 97, 34>>}

ZeroID == [i \in 1..traceIDSize |-> 0]

\* The zero value TraceID{}
ZeroValue == [id |-> ZeroID, idSlice |-> <<>>, useIdSlice |-> FALSE]

(***************************************************************************)
(* encoding/hex                                                            *)
(***************************************************************************)
HexDigit(d) == IF d < 10 THEN 48 + d ELSE 87 + d

HexEncode(b) ==
    [i \in 1..(2 * Len(b)) |->
        IF i % 2 = 1 THEN HexDigit(b[(i + 1) \div 2] \div 16)
                     ELSE HexDigit(b[i \div 2] % 16)]

IsHexChar(c) ==
    \/ c \in 48..57
    \/ c \in 97..102
    \/ c \in 65..70

FromHexChar(c) ==
    IF c \in 48..57 THEN c - 48
    ELSE IF c \in 97..102 THEN c - 87
    ELSE c - 55

\* Number of leading well-formed hex pairs of s
RECURSIVE GoodPairs(_, _)
GoodPairs(s, k) ==
    IF 2 * k + 2 > Len(s) THEN k
    ELSE IF IsHexChar(s[2 * k + 1]) /\ IsHexChar(s[2 * k + 2])
         THEN GoodPairs(s, k + 1)
         ELSE k

\* hex.Decode(dst, src): writes the leading well-formed pairs into dst and
\* fails on the first malformed pair or on an odd length.
HexDecode(dst, src) ==
    LET k == GoodPairs(src, 0)
        out == [i \in 1..Len(dst) |->
                   IF i <= k
                   THEN 16 * FromHexChar(src[2 * i - 1]) + FromHexChar(src[2 * i])
                   ELSE dst[i]]
    IN [dst |-> out, err |-> (k < Len(src) \div 2) \/ (Len(src) % 2 = 1)]

(***************************************************************************)
(* Helpers of package data that live beside traceid.go                     *)
(***************************************************************************)
QuoteCh == 34

\* marshalBytes(dst, src): copy src into dst, an error when dst is too short
marshalBytes(dstLen, src) ==
    IF dstLen < Len(src)
    THEN [n |-> 0, err |-> TRUE, out |-> <<>>]
    ELSE [n |-> Len(src), err |-> FALSE, out |-> src]

\* marshalJSON(id): the hex encoding between two quotes
marshalJSON(id) ==
    IF Len(id) = 0 THEN <<QuoteCh, QuoteCh>>
    ELSE <<QuoteCh>> \o HexEncode(id) \o <<QuoteCh>>

\* unmarshalJSON(dst, src): strip the quotes, then hex-decode into dst
unmarshalJSON(dst, src) ==
    LET l == Len(src)
        s == IF l >= 2 /\ src[1] = QuoteCh /\ src[l] = QuoteCh
             THEN SubSeq(src, 2, l - 1)
             ELSE src
    IN  IF Len(s) = 0 THEN [dst |-> dst, err |-> FALSE]
        ELSE IF Len(dst) # Len(s) \div 2 THEN [dst |-> dst, err |-> TRUE]
        ELSE HexDecode(dst, s)

(***************************************************************************)
(* TraceID                                                                 *)
(***************************************************************************)
NewTraceID(bytes) ==
    [id |-> bytes, idSlice |-> <<>>, useIdSlice |-> FALSE]

NewTraceIDWithUnlimitedSize(bytes) ==
    [id |-> ZeroID, idSlice |-> bytes, useIdSlice |-> TRUE]

IsEmpty(t) ==
    IF t.useIdSlice THEN Len(t.idSlice) = 0
    ELSE t.id = ZeroID

\* HexString without its emptiness test
HexStringNoEmptyTest(t) ==
    IF t.useIdSlice THEN t.idSlice
    ELSE HexEncode(t.id)

HexString(t) ==
    IF IsEmpty(t) THEN <<>>
    ELSE IF t.useIdSlice THEN t.idSlice
    ELSE HexEncode(t.id)

Size(t) ==
    IF IsEmpty(t) THEN 0
    ELSE IF t.useIdSlice THEN Len(t.idSlice)
    ELSE traceIDSize

\* Equal comparing the fixed arrays whatever the receiver's mode
EqualFixedOnly(t, u) == t.id = u.id

\* Equal whose variable-mode branch also compares the fixed arrays
EqualBothFields(t, u) ==
    IF t.useIdSlice
    THEN t.idSlice = u.idSlice /\ t.id = u.id
    ELSE t.id = u.id

Equal(t, u) ==
    IF t.useIdSlice
    THEN IF Len(t.idSlice) # Len(u.idSlice) THEN FALSE
         ELSE \A i \in 1..Len(t.idSlice) : t.idSlice[i] = u.idSlice[i]
    ELSE t.id = u.id

\* MarshalTo(data) with a buffer of dataLen bytes: the bytes written
MarshalTo(t, dataLen) ==
    IF IsEmpty(t) THEN [n |-> 0, err |-> FALSE, out |-> <<>>]
    ELSE IF t.useIdSlice THEN marshalBytes(dataLen, t.idSlice)
    ELSE marshalBytes(dataLen, t.id)

Unmarshal(t, data) ==
    IF Len(data) = 0
    THEN [tid |-> [t EXCEPT !.id = ZeroID], err |-> FALSE]
    ELSE IF Len(data) # traceIDSize
    THEN [tid |-> [t EXCEPT !.useIdSlice = TRUE, !.idSlice = data], err |-> FALSE]
    ELSE [tid |-> [t EXCEPT !.id = data], err |-> FALSE]

MarshalJSON(t) ==
    IF IsEmpty(t) THEN <<QuoteCh, QuoteCh>>
    ELSE IF t.useIdSlice THEN marshalJSON(t.idSlice)
    ELSE marshalJSON(t.id)

UnmarshalJSON(t, data) ==
    IF Len(data) # traceIDSize
    THEN LET r == unmarshalJSON([i \in 1..Len(data) |-> 0], data)
         IN [tid |-> [t EXCEPT !.useIdSlice = TRUE, !.idSlice = r.dst],
             err |-> r.err]
    ELSE LET r == unmarshalJSON(ZeroID, data)
         IN [tid |-> [t EXCEPT !.id = r.dst], err |-> r.err]

(***************************************************************************)
(* Specification SpecID: one TraceID, constructed in either mode, then any *)
(* sequence of Unmarshal / UnmarshalJSON calls and marshal round trips.    *)
(***************************************************************************)
Constructed ==
    {NewTraceID(b) : b \in ArrayInputs}
    \cup {NewTraceIDWithUnlimitedSize(d) : d \in DataInputs}

Call(op, arg, err) == [op |-> op, arg |-> arg, err |-> err]

\* otlptrace.Status{}: both enums at their zero value
ZeroStatus == [code |-> "STATUS_CODE_UNSET", deprecated |-> "DEPRECATED_STATUS_CODE_OK"]

\* No exporter call made yet
NoOut == [op |-> "none"]

\* No span status touched, nothing handed to the exporter
InitEx ==
    /\ status = ZeroStatus
    /\ calls = <<>>
    /\ batch = <<>>
    /\ outcome = NoOut

\* The tree before anything is built: an empty heap, a nil orig slice and
\* a zero-initialized Traces{}
InitTr ==
    /\ heap = <<>>
    /\ owner = [arr |-> 0, len |-> 0]
    /\ td = 0
    /\ cl = 0
    /\ shared = -1
    /\ fault = FALSE
    /\ sent = <<>>
    /\ ret = "none"

InitID ==
    /\ tid \in Constructed
    /\ that = ZeroValue
    /\ last = Call("New", <<>>, FALSE)
    /\ eq = "none"
    /\ InitTr
    /\ InitEx

UnmarshalAct ==
    \E data \in DataInputs :
        LET r == Unmarshal(tid, data)
        IN /\ tid' = r.tid
           /\ last' = Call("Unmarshal", data, r.err)
           /\ UNCHANGED <<that, eq>>
           /\ UNCHANGED <<trVars, exVars>>

UnmarshalJSONAct ==
    \E data \in JsonInputs :
        LET r == UnmarshalJSON(tid, data)
        IN /\ tid' = r.tid
           /\ last' = Call("UnmarshalJSON", data, r.err)
           /\ UNCHANGED <<that, eq>>
           /\ UNCHANGED <<trVars, exVars>>

\* that := TraceID{}; that.Unmarshal(buf) where buf holds what
\* tid.MarshalTo wrote into a buffer of tid.Size() bytes
BinaryRoundTrip ==
    LET m == MarshalTo(tid, Size(tid))
        r == Unmarshal(ZeroValue, m.out)
    IN /\ that' = r.tid
       /\ last' = Call("BinaryRoundTrip", m.out, m.err \/ r.err)
       /\ UNCHANGED <<tid, eq>>
       /\ UNCHANGED <<trVars, exVars>>

\* that := TraceID{}; that.UnmarshalJSON(tid.MarshalJSON())
JSONRoundTrip ==
    LET m == MarshalJSON(tid)
        r == UnmarshalJSON(ZeroValue, m)
    IN /\ that' = r.tid
       /\ last' = Call("JSONRoundTrip", m, r.err)
       /\ UNCHANGED <<tid, eq>>
       /\ UNCHANGED <<trVars, exVars>>

NextID ==
    \/ UnmarshalAct
    \/ UnmarshalJSONAct
    \/ BinaryRoundTrip
    \/ JSONRoundTrip

SpecID == InitID /\ [][NextID]_vars

(***************************************************************************)
(* Specification SpecEq: two TraceIDs, each constructed in either mode and *)
(* then unmarshalled into any number of times, compared by tid.Equal(that).*)
(***************************************************************************)
InitEq ==
    /\ tid \in Constructed
    /\ that \in Constructed
    /\ last = Call("New", <<>>, FALSE)
    /\ eq = "none"
    /\ InitTr
    /\ InitEx

OperandUnmarshal ==
    \E data \in DataInputs :
        /\ \/ tid' = Unmarshal(tid, data).tid /\ that' = that
           \/ that' = Unmarshal(that, data).tid /\ tid' = tid
        /\ eq' = "none"
        /\ UNCHANGED last
        /\ UNCHANGED <<trVars, exVars>>

OperandUnmarshalJSON ==
    \E data \in JsonInputs :
        /\ \/ tid' = UnmarshalJSON(tid, data).tid /\ that' = that
           \/ that' = UnmarshalJSON(that, data).tid /\ tid' = tid
        /\ eq' = "none"
        /\ UNCHANGED last
        /\ UNCHANGED <<trVars, exVars>>

EqualAct ==
    /\ eq' = IF Equal(tid, that) THEN "true" ELSE "false"
    /\ UNCHANGED <<tid, that, last>>
    /\ UNCHANGED <<trVars, exVars>>

NextEq ==
    \/ OperandUnmarshal
    \/ OperandUnmarshalJSON
    \/ EqualAct

SpecEq == InitEq /\ [][NextEq]_vars

(***************************************************************************)
(* Properties of TraceID                                                   *)
(***************************************************************************)

\* C4: the identifier mode is never ambiguous: a non-zero fixed array never
\* coexists with a non-empty variable byte sequence.
C4_ModeUnambiguous ==
    ~(tid.id # ZeroID /\ Len(tid.idSlice) > 0)

\* C5: after Unmarshal(data) the state is determined by data alone: empty
\* fixed mode for zero-length data, fixed mode holding data for 16 bytes,
\* variable mode holding data for any other length.
C5_UnmarshalByDataAlone ==
    last.op = "Unmarshal" =>
        IF Len(last.arg) = 0
        THEN ~tid.useIdSlice /\ tid.id = ZeroID /\ IsEmpty(tid)
        ELSE IF Len(last.arg) = traceIDSize
        THEN ~tid.useIdSlice /\ tid.id = last.arg
        ELSE tid.useIdSlice /\ tid.idSlice = last.arg

\* C6: unmarshalling what MarshalTo wrote, into a zero-value TraceID, gives
\* an identifier with the same HexString, in either mode and for any length.
C6_BinaryRoundTrip ==
    last.op = "BinaryRoundTrip" =>
        ~last.err /\ HexString(that) = HexString(tid)

\* C7: for a fixed-mode identifier, UnmarshalJSON of MarshalJSON's output
\* succeeds and gives an identifier with the same HexString.
C7_JSONRoundTrip ==
    (last.op = "JSONRoundTrip" /\ ~tid.useIdSlice) =>
        ~last.err /\ HexString(that) = HexString(tid)

\* C10: in every reachable state IsEmpty() is true exactly when HexString()
\* is the empty string.
C10_EmptyIffNoHex ==
    IsEmpty(tid) <=> (HexString(tid) = <<>>)

\* C10 witness: after an Unmarshal, a variable-mode identifier that is empty
\* although its fixed array is populated.
C10_Witness ==
    /\ last.op = "Unmarshal"
    /\ tid.useIdSlice
    /\ tid.id # ZeroID
    /\ IsEmpty(tid)
    /\ HexString(tid) = <<>>

\* C8: a.Equal(b) with a in variable mode is true exactly when the two
\* variable byte sequences are equal, whatever the fixed arrays and b's mode;
\* with a in fixed mode exactly when the fixed arrays are equal; a 20-byte
\* variable-mode identifier is never Equal to a fixed-mode one.
C8_EqualByMode ==
    eq # "none" =>
        /\ (eq = "true") <=> (IF tid.useIdSlice THEN tid.idSlice = that.idSlice
                                                  ELSE tid.id = that.id)
        /\ (tid.useIdSlice /\ Len(tid.idSlice) = 20 /\ ~that.useIdSlice)
              => eq = "false"

\* C8 witness: a 20-byte variable-mode receiver compared with a fixed-mode
\* identifier holding the same non-zero fixed array: not Equal.
C8_Witness ==
    /\ eq = "false"
    /\ tid.useIdSlice /\ Len(tid.idSlice) = 20
    /\ ~that.useIdSlice
    /\ tid.id = that.id /\ tid.id # ZeroID

\* The result Equal would give with the two fixed arrays replaced
EqualWithArrays(x, y) ==
    Equal([tid EXCEPT !.id = x], [that EXCEPT !.id = y])

\* C9 as stated: whenever either operand is in variable mode, the result of
\* Equal does not depend on the fixed array of either operand.
C9_EitherVariable ==
    (eq # "none" /\ (tid.useIdSlice \/ that.useIdSlice)) =>
        \A x, y \in ArrayInputs : EqualWithArrays(x, y) = (eq = "true")

\* C9 amended: whenever the receiver is in variable mode, the result of
\* Equal does not depend on the fixed array of either operand.
C9_ReceiverVariable ==
    (eq # "none" /\ tid.useIdSlice) =>
        \A x, y \in ArrayInputs : EqualWithArrays(x, y) = (eq = "true")

\* C9 witness: a variable-mode receiver Equal to an identifier whose fixed
\* array differs from its own.
C9_Witness ==
    /\ eq = "true"
    /\ tid.useIdSlice
    /\ tid.id # that.id

(***************************************************************************)
(* Traces (consumer/pdata/trace.go).                                       *)
(*                                                                         *)
(* The heap holds three kinds of object:                                   *)
(*   "hdr"  a []*ResourceSpans variable (what Traces.orig points to):      *)
(*          the backing array's address and the slice's length; the        *)
(*          capacity is the backing array's size                           *)
(*   "arr"  a backing array of *ResourceSpans (0 is a nil pointer)         *)
(*   "rs"   a ResourceSpans struct with everything below it, held by value *)
(*          (its instrumentation-library groups and their spans)           *)
(***************************************************************************)

\* Longest root sequence an Append may produce
MaxRS == 2

\* Most instrumentation-library groups per resource group an edit may produce
MaxILS == 1

\* Most spans per instrumentation-library group an edit may produce
MaxSpans == 1

HdrObj(arr, len) == [k |-> "hdr", arr |-> arr, len |-> len]

ArrObj(slots) == [k |-> "arr", slots |-> slots]

RsObj(v) == [k |-> "rs", v |-> v]

NilSlice == [arr |-> 0, len |-> 0]

ZeroSpan == [name |-> 0]

ZeroILS == [spans |-> <<>>]

ZeroRS == [ils |-> <<>>]

Min(a, b) == IF a < b THEN a ELSE b

\* cap(s) of the slice over backing array a
Cap(h, a) == IF a = 0 THEN 0 ELSE Len(h[a].slots)

\* *t.orig: the slice value in the variable a Traces points to
Slice(h, t) == [arr |-> h[t].arr, len |-> h[t].len]

\* The resource groups seen through slice value sl, by value
View(h, sl) == [i \in 1..sl.len |-> h[h[sl.arr].slots[i]].v]

\* Go's append(sl, p): in place when the capacity allows, else into a new
\* backing array of twice the capacity
GoAppend(h, sl, p) ==
    IF sl.len < Cap(h, sl.arr)
    THEN [heap |-> [h EXCEPT ![sl.arr].slots[sl.len + 1] = p],
          sl |-> [arr |-> sl.arr, len |-> sl.len + 1]]
    ELSE LET newcap == IF Cap(h, sl.arr) = 0 THEN 1 ELSE 2 * Cap(h, sl.arr)
             slots == [i \in 1..newcap |->
                          IF i <= sl.len THEN h[sl.arr].slots[i]
                          ELSE IF i = sl.len + 1 THEN p
                          ELSE 0]
         IN [heap |-> Append(h, ArrObj(slots)),
             sl |-> [arr |-> Len(h) + 1, len |-> sl.len + 1]]

\* The backing array append leaves after n appends to a nil slice
RECURSIVE GrownCap(_)
GrownCap(n) == IF n = 0 THEN 0 ELSE IF n = 1 THEN 1 ELSE 2 * GrownCap((n + 1) \div 2)

\* n fresh ResourceSpans structs holding vals, then a backing array of
\* capacity c pointing at them; sl is the slice over it (nil when n = 0)
AllocTree(h, vals, c) ==
    LET n == Len(vals)
        h1 == h \o [i \in 1..n |-> RsObj(vals[i])]
        slots == [i \in 1..c |-> IF i <= n THEN Len(h) + i ELSE 0]
    IN IF n = 0 THEN [heap |-> h, sl |-> NilSlice]
       ELSE [heap |-> Append(h1, ArrObj(slots)),
             sl |-> [arr |-> Len(h1) + 1, len |-> n]]

(***************************************************************************)
(* The slice view over the root sequence (generated code beside trace.go)  *)
(***************************************************************************)
\* NewResourceSpansSlice(): a view over a new, empty sequence
NewResourceSpansSlice(h) ==
    [heap |-> Append(h, HdrObj(0, 0)), es |-> Len(h) + 1]

\* es.Append(): one more zero-initialized element in the owner's storage
SliceAppend(h, es) ==
    LET h1 == Append(h, RsObj(ZeroRS))
        r == GoAppend(h1, Slice(h1, es), Len(h1))
    IN [r.heap EXCEPT ![es] = HdrObj(r.sl.arr, r.sl.len)]

\* es.CopyTo(dest): dest's contents replaced by a deep, element-wise copy
\* in newly allocated storage of the source's length
CopyTo(h, es, dest) ==
    LET r == AllocTree(h, View(h, Slice(h, es)), h[es].len)
    IN [r.heap EXCEPT ![dest] = HdrObj(r.sl.arr, r.sl.len)]

(***************************************************************************)
(* The wire codec: a message is a sequence of fields, each a well-formed   *)
(* resource group or a malformed field; parsing stops at the first         *)
(* malformed field.                                                        *)
(***************************************************************************)
Good(v) == [ok |-> TRUE, v |-> v]

Bad == [ok |-> FALSE, v |-> ZeroRS]

OneSpanRS == [ils |-> <<[spans |-> <<[name |-> 1]>>]>>]

WireInputs ==
    { <<>>,
      <<Good(OneSpanRS)>>,
      <<Good(OneSpanRS), Bad>> }

\* Number of leading well-formed fields of data
RECURSIVE GoodFields(_, _)
GoodFields(data, k) ==
    IF k < Len(data) /\ data[k + 1].ok THEN GoodFields(data, k + 1) ELSE k

\* ExportTraceServiceRequest.Unmarshal(data): the resource groups parsed
\* before the end or the first malformed field, and whether it failed
WireUnmarshal(data) ==
    LET k == GoodFields(data, 0)
    IN [rs |-> [i \in 1..k |-> data[i].v], err |-> k < Len(data)]

(***************************************************************************)
(* Traces                                                                  *)
(***************************************************************************)
NewTraces(h) ==
    [heap |-> Append(h, HdrObj(0, 0)), t |-> Len(h) + 1]

\* TracesFromOtlp deep-copying the tree it is given
TracesFromOtlpCopy(h, orig) ==
    LET r == AllocTree(h, View(h, orig), orig.len)
    IN [heap |-> Append(r.heap, HdrObj(r.sl.arr, r.sl.len)),
        t |-> Len(r.heap) + 1]

\* Traces{&orig}: orig is the function's own copy of the caller's slice value
TracesFromOtlp(h, orig) ==
    [heap |-> Append(h, HdrObj(orig.arr, orig.len)), t |-> Len(h) + 1]

TracesToOtlp(h, t) == Slice(h, t)

ResourceSpans(t) == t

\* FromOtlpProtoBytes storing what was parsed before looking at the error
FromOtlpProtoBytesStoreFirst(h, t, data) ==
    LET u == WireUnmarshal(data)
        r == AllocTree(h, u.rs, GrownCap(Len(u.rs)))
    IN IF t = 0 THEN [heap |-> h, err |-> FALSE, fault |-> TRUE]
       ELSE [heap |-> [r.heap EXCEPT ![t] = HdrObj(r.sl.arr, r.sl.len)],
             err |-> u.err, fault |-> FALSE]

FromOtlpProtoBytes(h, t, data) ==
    LET u == WireUnmarshal(data)
        r == AllocTree(h, u.rs, GrownCap(Len(u.rs)))
    IN IF u.err THEN [heap |-> h, err |-> TRUE, fault |-> FALSE]
       ELSE IF t = 0 THEN [heap |-> h, err |-> FALSE, fault |-> TRUE]
       ELSE [heap |-> [r.heap EXCEPT ![t] = HdrObj(r.sl.arr, r.sl.len)],
             err |-> FALSE, fault |-> FALSE]

\* Clone copying the sequence of pointers but not what they point to
CloneShallow(h, t) ==
    LET sl == Slice(h, t)
        slots == [i \in 1..sl.len |-> h[sl.arr].slots[i]]
        h1 == IF sl.len = 0 THEN h ELSE Append(h, ArrObj(slots))
    IN [heap |-> Append(h1, HdrObj(IF sl.len = 0 THEN 0 ELSE Len(h1), sl.len)),
        t |-> Len(h1) + 1]

Clone(h, t) ==
    LET r == NewResourceSpansSlice(h)
    IN [heap |-> CopyTo(r.heap, ResourceSpans(t), r.es), t |-> r.es]

RECURSIVE SumSpans(_, _)
SumSpans(ilss, j) ==
    IF j > Len(ilss) THEN 0
    ELSE Len(ilss[j].spans) + SumSpans(ilss, j + 1)

RECURSIVE SumView(_, _)
SumView(rss, i) ==
    IF i > Len(rss) THEN 0
    ELSE SumSpans(rss[i].ils, 1) + SumView(rss, i + 1)

\* SpanCount looking at the first instrumentation-library group only
SpanCountFirstILS(h, t) ==
    LET rss == View(h, Slice(h, ResourceSpans(t)))
        first(rs) == IF Len(rs.ils) = 0 THEN 0 ELSE Len(rs.ils[1].spans)
        sum[i \in 0..Len(rss)] == IF i = 0 THEN 0 ELSE sum[i - 1] + first(rss[i])
    IN sum[Len(rss)]

SpanCount(h, t) == SumView(View(h, Slice(h, ResourceSpans(t))), 1)

(***************************************************************************)
(* Specification SpecTr: an external owner builds a sequence of resource   *)
(* groups; a Traces is made by NewTraces or TracesFromOtlp, cloned, and    *)
(* the owner, the Traces and the clone are mutated in any order.           *)
(*                                                                         *)
(* A Go program can observe neither an unreachable object nor the order of *)
(* addresses, so every step ends by dropping what no root reaches (the     *)
(* garbage collector's work) and renumbering the addresses in the order a  *)
(* walk from the roots meets them.                                         *)
(***************************************************************************)
Sides == {"owner", "td", "cl"}

\* The slice values through which the program reaches the heap
Roots(h, ow, t, c) ==
    {ow} \cup {Slice(h, x) : x \in {t, c} \ {0}}

\* The longest slice some root holds over backing array a
LiveLen(h, ow, t, c, a) ==
    LET lens == {sl.len : sl \in {r \in Roots(h, ow, t, c) : r.arr = a}}
    IN IF lens = {} THEN 0 ELSE CHOOSE n \in lens : \A m \in lens : m <= n

\* seq without the later occurrences of its elements
RECURSIVE Distinct(_, _, _)
Distinct(seq, i, acc) ==
    IF i > Len(seq) THEN acc
    ELSE IF \E j \in 1..Len(acc) : acc[j] = seq[i]
         THEN Distinct(seq, i + 1, acc)
         ELSE Distinct(seq, i + 1, Append(acc, seq[i]))

\* The live addresses in the order a walk from the roots meets them: the
\* owner's backing array and its elements, then td's variable, backing array
\* and elements, then cl's
Walk(h, ow, t, c) ==
    LET elems(a) == IF a = 0 THEN <<>>
                    ELSE <<a>> \o SubSeq(h[a].slots, 1, LiveLen(h, ow, t, c, a))
        from(x) == IF x = 0 THEN <<>> ELSE <<x>> \o elems(h[x].arr)
    IN Distinct(elems(ow.arr) \o from(t) \o from(c), 1, <<>>)

\* The state after collection: [heap, owner, td, cl]
Collect(h, ow, t, c) ==
    LET walk == Walk(h, ow, t, c)
        new == [a \in 0..Len(h) |->
                   IF \E i \in 1..Len(walk) : walk[i] = a
                   THEN CHOOSE i \in 1..Len(walk) : walk[i] = a
                   ELSE 0]
        move(a) ==
            CASE h[a].k = "hdr" -> HdrObj(new[h[a].arr], h[a].len)
              [] h[a].k = "arr" ->
                    LET n == LiveLen(h, ow, t, c, a)
                    IN ArrObj([i \in 1..Len(h[a].slots) |->
                                  IF i <= n THEN new[h[a].slots[i]] ELSE 0])
              [] h[a].k = "rs" -> h[a]
    IN [heap |-> [n \in 1..Len(walk) |-> move(walk[n])],
        owner |-> [arr |-> new[ow.arr], len |-> ow.len],
        td |-> new[t],
        cl |-> new[c]]

\* The step's result h, ow, t, c becomes the next state
Commit(h, ow, t, c) ==
    \E n \in {Collect(h, ow, t, c)} :
       /\ heap' = n.heap
       /\ owner' = n.owner
       /\ td' = n.td
       /\ cl' = n.cl

Handle(who) == IF who = "td" THEN td ELSE cl

SliceOf(who) == IF who = "owner" THEN owner ELSE Slice(heap, Handle(who))

\* The owner mutates orig while it builds it and while a bridge shares it
Usable(who) ==
    /\ ~fault
    /\ CASE who = "owner" -> td = 0 \/ shared >= 0
         [] who = "td" -> td # 0
         [] who = "cl" -> cl # 0

OwnerView == View(heap, owner)

TdView == IF td = 0 THEN <<>> ELSE View(heap, Slice(heap, td))

ClView == IF cl = 0 THEN <<>> ELSE View(heap, Slice(heap, cl))

InitTree ==
    /\ InitTr
    /\ InitEx
    /\ tid = ZeroValue
    /\ that = ZeroValue
    /\ last = Call("New", <<>>, FALSE)
    /\ eq = "none"

NewTracesAct ==
    /\ ~fault /\ td = 0
    /\ owner = NilSlice
    /\ LET r == NewTraces(heap)
       IN Commit(r.heap, owner, r.t, cl)
    /\ ret' = "none"
    /\ sent' = <<>>
    /\ UNCHANGED <<shared, fault>>
    /\ UNCHANGED <<idVars, exVars>>

TracesFromOtlpAct ==
    /\ ~fault /\ td = 0
    /\ LET r == TracesFromOtlp(heap, owner)
       IN Commit(r.heap, owner, r.t, cl)
    /\ shared' = owner.len
    /\ ret' = "none"
    /\ sent' = <<>>
    /\ UNCHANGED fault
    /\ UNCHANGED <<idVars, exVars>>

CloneAct ==
    /\ ~fault /\ td # 0 /\ cl = 0
    /\ LET r == Clone(heap, td)
       IN Commit(r.heap, owner, td, r.t)
    /\ ret' = "none"
    /\ sent' = <<>>
    /\ UNCHANGED <<shared, fault>>
    /\ UNCHANGED <<idVars, exVars>>

\* orig = append(orig, &ResourceSpans{}) by the owner;
\* ResourceSpans().Append() through a Traces
AppendBy(who) ==
    /\ Usable(who)
    /\ SliceOf(who).len < MaxRS
    /\ IF who = "owner"
       THEN LET h1 == Append(heap, RsObj(ZeroRS))
                r == GoAppend(h1, owner, Len(h1))
            IN Commit(r.heap, r.sl, td, cl)
       ELSE Commit(SliceAppend(heap, ResourceSpans(Handle(who))), owner, td, cl)
    /\ ret' = "none"
    /\ sent' = <<>>
    /\ UNCHANGED <<shared, fault>>
    /\ UNCHANGED <<idVars, exVars>>

AppendAct == \E who \in Sides : AppendBy(who)

\* The last element removed by reslicing to one element less
RemoveBy(who) ==
    /\ Usable(who)
    /\ SliceOf(who).len > 0
    /\ LET sl == SliceOf(who)
       IN /\ IF who = "owner"
             THEN Commit(heap, [arr |-> sl.arr, len |-> sl.len - 1], td, cl)
             ELSE Commit([heap EXCEPT ![Handle(who)] = HdrObj(sl.arr, sl.len - 1)],
                         owner, td, cl)
          /\ shared' = IF who # "cl" /\ shared >= 0
                       THEN Min(shared, sl.len - 1)
                       ELSE shared
    /\ ret' = "none"
    /\ sent' = <<>>
    /\ UNCHANGED fault
    /\ UNCHANGED <<idVars, exVars>>

RemoveAct == \E who \in Sides : RemoveBy(who)

\* The values one in-place edit of resource group v can leave: an
\* instrumentation-library group appended, a span appended, a span renamed
Edits(v) ==
    (IF Len(v.ils) < MaxILS
     THEN {[v EXCEPT !.ils = Append(v.ils, ZeroILS)]}
     ELSE {})
    \cup {[v EXCEPT !.ils[j].spans = Append(v.ils[j].spans, ZeroSpan)] :
            j \in {j \in 1..Len(v.ils) : Len(v.ils[j].spans) < MaxSpans}}
    \cup UNION {{[v EXCEPT !.ils[j].spans[k].name = 1 - v.ils[j].spans[k].name] :
                    k \in 1..Len(v.ils[j].spans)} : j \in 1..Len(v.ils)}

\* An edit through the view At(i) returns: it writes the element in place
EditBy(who) ==
    /\ Usable(who)
    /\ \E i \in 1..SliceOf(who).len :
         LET p == heap[SliceOf(who).arr].slots[i]
         IN \E v \in Edits(heap[p].v) :
              Commit([heap EXCEPT ![p].v = v], owner, td, cl)
    /\ ret' = "none"
    /\ sent' = <<>>
    /\ UNCHANGED <<shared, fault>>
    /\ UNCHANGED <<idVars, exVars>>

EditAct == \E who \in Sides : EditBy(who)

\* td.FromOtlpProtoBytes(data), td zero-initialized or constructed
FromOtlpProtoBytesOf(data) ==
    /\ ~fault
    /\ LET r == FromOtlpProtoBytes(heap, td, data)
       IN /\ Commit(r.heap, owner, td, cl)
          /\ fault' = r.fault
          /\ shared' = IF shared >= 0 /\ ~r.err /\ ~r.fault THEN 0 ELSE shared
          /\ sent' = data
          /\ ret' = IF r.fault THEN "panic" ELSE IF r.err THEN "error" ELSE "nil"
    /\ UNCHANGED <<idVars, exVars>>

FromOtlpProtoBytesAct == \E data \in WireInputs : FromOtlpProtoBytesOf(data)

NextTr ==
    \/ NewTracesAct
    \/ TracesFromOtlpAct
    \/ CloneAct
    \/ AppendAct
    \/ RemoveAct
    \/ EditAct
    \/ FromOtlpProtoBytesAct

SpecTr == InitTree /\ [][NextTr]_vars

(***************************************************************************)
(* Properties of Traces                                                    *)
(***************************************************************************)
\* The addresses a Traces value reaches
Storage(t) ==
    IF t = 0 THEN {}
    ELSE {t} \cup ({heap[t].arr} \ {0})
         \cup (IF heap[t].arr = 0 THEN {}
               ELSE {heap[heap[t].arr].slots[i] :
                        i \in 1..Len(heap[heap[t].arr].slots)} \ {0})

\* C1: Clone(t) has the SpanCount and the per-span values of t, leaves t as
\* it was and shares no storage with it: no step (append, removal, in-place
\* edit, FromOtlpProtoBytes, by whichever side) that changes what is seen
\* through the clone changes what is seen through t or t's owner, and no
\* address is reached from both t and the clone.
C1_CloneIndependent ==
    /\ [][(cl = 0 /\ cl' # 0) =>
            /\ ClView' = TdView'
            /\ TdView' = TdView
            /\ SpanCount(heap', cl') = SpanCount(heap', td')]_vars
    /\ [][(cl # 0 /\ ClView' # ClView) =>
            (TdView' = TdView /\ OwnerView' = OwnerView)]_vars
    /\ [](cl # 0 => Storage(td) \cap Storage(cl) = {})

\* C1 witness: a clone and its original, both non-empty, that have come to
\* differ in length and in span count by mutations made after the clone.
C1_Witness ==
    /\ cl # 0
    /\ Len(ClView) > 0 /\ Len(TdView) > 0
    /\ Len(ClView) # Len(TdView)
    /\ SpanCount(heap, cl) # SpanCount(heap, td)

C3_DecodeErrorKeepsContents ==
    [][(td # 0 /\ ret' # "none") =>
          IF WireUnmarshal(sent').err
          THEN ret' = "error" /\ TdView' = TdView
          ELSE ret' = "nil" /\ TdView' = WireUnmarshal(sent').rs]_vars

\* C3 witness: a decode error was returned by a Traces that holds contents.
C3_Witness ==
    /\ td # 0
    /\ ret = "error"
    /\ Len(TdView) > 0


\* C15: td.FromOtlpProtoBytes(data) on a zero-initialized Traces{} panics for
\* every data, well-formed or malformed, and never returns a decode error;
\* on a Traces from NewTraces or TracesFromOtlp it never panics.
C15_ZeroInitAlwaysFaults ==
    ret # "none" => IF td = 0 THEN ret = "panic" ELSE ret # "panic"

(***************************************************************************)
(* SpanStatus.SetCode (consumer/pdata/trace.go).                           *)
(*                                                                         *)
(* Specification SpecStatus: a span's Status as it was decoded or built,   *)
(* then any sequence of SetCode calls.                                     *)
(***************************************************************************)
\* Longest sequence of SetCode calls
MaxCalls == 4

StatusCodeUnset == "STATUS_CODE_UNSET"

StatusCodeOk == "STATUS_CODE_OK"

StatusCodeError == "STATUS_CODE_ERROR"

StatusCodes == {StatusCodeUnset, StatusCodeOk, StatusCodeError}

\* StatusCode is an int32: a caller may hand in a value that names no code
CodeInputs == StatusCodes \cup {"StatusCode(3)"}

\* Values of the deprecated field a decoded Status may carry
DeprecatedCodes ==
    {"DEPRECATED_STATUS_CODE_OK", "DEPRECATED_STATUS_CODE_CANCELLED",
     "DEPRECATED_STATUS_CODE_UNKNOWN_ERROR"}

\* SetCode writing the deprecated field for an error only
SetCodeErrorOnly(st, v) ==
    [code |-> v,
     deprecated |-> IF v = StatusCodeError
                    THEN "DEPRECATED_STATUS_CODE_UNKNOWN_ERROR"
                    ELSE st.deprecated]

\* ms.SetCode(v): the switch has no default case
SetCode(st, v) ==
    [code |-> v,
     deprecated |-> CASE v \in {StatusCodeUnset, StatusCodeOk} ->
                            "DEPRECATED_STATUS_CODE_OK"
                      [] v = StatusCodeError ->
                            "DEPRECATED_STATUS_CODE_UNKNOWN_ERROR"
                      [] OTHER -> st.deprecated]

InitStatus ==
    /\ InitTr
    /\ tid = ZeroValue
    /\ that = ZeroValue
    /\ last = Call("New", <<>>, FALSE)
    /\ eq = "none"
    /\ status \in [code : StatusCodes, deprecated : DeprecatedCodes]
    /\ calls = <<>>
    /\ batch = <<>>
    /\ outcome = NoOut

SetCodeAct ==
    /\ Len(calls) < MaxCalls
    /\ \E v \in CodeInputs :
         /\ status' = SetCode(status, v)
         /\ calls' = Append(calls, v)
    /\ UNCHANGED <<batch, outcome>>
    /\ UNCHANGED <<idVars, trVars>>

NextStatus == SetCodeAct

SpecStatus == InitStatus /\ [][NextStatus]_vars

\* C16: after one or more SetCode calls, all with Unset, Ok or Error, the code
\* is the last one set and the legacy field is the legacy "ok" value when
\* that code is Unset or Ok, the legacy "unknown error" value when it is Error.
C16_LegacyMirrorsCode ==
    (Len(calls) > 0 /\ \A i \in 1..Len(calls) : calls[i] \in StatusCodes) =>
        /\ status.code = calls[Len(calls)]
        /\ status.deprecated = IF status.code = StatusCodeError
                               THEN "DEPRECATED_STATUS_CODE_UNKNOWN_ERROR"
                               ELSE "DEPRECATED_STATUS_CODE_OK"

\* C16 witness: a status that was an error and then set to Ok again, the
\* legacy field back at its "ok" value.
C16_Witness ==
    /\ Len(calls) >= 2
    /\ calls[Len(calls) - 1] = StatusCodeError
    /\ calls[Len(calls)] = StatusCodeOk
    /\ status.deprecated = "DEPRECATED_STATUS_CODE_OK"

(***************************************************************************)
(* The Kafka exporter (exporter/kafkaexporter).                            *)
(*                                                                         *)
(* A batch is a Traces by value: a sequence of resource groups, each a     *)
(* sequence of instrumentation-library groups, each a sequence of spans.   *)
(* A span carries its trace id and whether the Jaeger span marshaller in   *)
(* use can serialize it.                                                   *)
(***************************************************************************)
\* Most resource groups in a batch
MaxBatchRS == 2

\* Most instrumentation-library groups in a resource group of a batch
MaxBatchILS == 2

\* Most spans in an instrumentation-library group of a batch
MaxBatchSpans == 2

\* Most spans in a batch
MaxBatchTotal == 3

\* Most metrics or log records in a batch handed to their pushers
MaxItems == 2

IdA == NewTraceID(Pat(traceIDSize, 170, 0))

IdB == NewTraceID(Pat(traceIDSize, 0, 170))

SpanKinds ==
    { [traceID |-> ZeroValue, ok |-> TRUE],
      [traceID |-> IdA, ok |-> TRUE],
      [traceID |-> IdB, ok |-> FALSE] }

SeqsUpTo(S, n) == UNION {[1..k -> S] : k \in 0..n}

\* The spans of resource group rs in traversal order
RECURSIVE SpansOfRS(_, _)
SpansOfRS(rs, j) ==
    IF j > Len(rs.ils) THEN <<>>
    ELSE rs.ils[j].spans \o SpansOfRS(rs, j + 1)

\* The spans of batch b in traversal order
RECURSIVE SpansOf(_, _)
SpansOf(b, i) ==
    IF i > Len(b) THEN <<>>
    ELSE SpansOfRS(b[i], 1) \o SpansOf(b, i + 1)

BatchILS == {[spans |-> s] : s \in SeqsUpTo(SpanKinds, MaxBatchSpans)}

BatchRS ==
    {r \in {[ils |-> l] : l \in SeqsUpTo(BatchILS, MaxBatchILS)} :
        Len(SpansOfRS(r, 1)) <= MaxBatchTotal}

Batches ==
    {b \in SeqsUpTo(BatchRS, MaxBatchRS) : Len(SpansOf(b, 1)) <= MaxBatchTotal}

\* The Traces the exporter is handed: a tree holding b and a handle on it
TracesOf(b) ==
    LET r == AllocTree(<<>>, b, Len(b))
    IN TracesFromOtlp(r.heap, r.sl)

Topic == "otlp_spans"

\* An error value: what failed, and whether consumererror.Permanent wraps it
Err(e) == [e |-> e, permanent |-> FALSE]

NoErr == Err("nil")

\* sarama.ProducerMessage
Message(key, value) == [topic |-> Topic, key |-> key, value |-> value]

\* ExportTraceServiceRequest{ResourceSpans: rss}.Marshal(): the bytes
Envelope(rss) == [request |-> "ExportTraceServiceRequest", resourceSpans |-> rss]

\* What a call leaves behind; every call fills in its own part
Out(op) ==
    [op |-> op, marshaller |-> "none", msgs |-> <<>>, err |-> NoErr,
     merr |-> NoErr, failed |-> 0, fault |-> FALSE, called |-> FALSE,
     handed |-> <<>>, sendOK |-> TRUE, dropped |-> 0, items |-> 0]

\* The loop of otlpTracesPbMarshaller.Marshal from resource group i on;
\* request.Marshal() fails at resource group failAt (0: never)
RECURSIVE OtlpLoop(_, _, _, _)
OtlpLoop(b, i, messages, failAt) ==
    IF i > Len(b) THEN [msgs |-> messages, err |-> NoErr, fault |-> FALSE]
    ELSE IF Len(b[i].ils) = 0 \/ Len(b[i].ils[1].spans) = 0
    THEN [msgs |-> <<>>, err |-> NoErr, fault |-> TRUE]
    ELSE LET span == b[i].ils[1].spans[1]
             key == IF ~IsEmpty(span.traceID) THEN HexString(span.traceID)
                    ELSE <<>>
         IN IF i = failAt
            THEN [msgs |-> <<>>, err |-> Err("marshal"), fault |-> FALSE]
            ELSE OtlpLoop(b, i + 1,
                          Append(messages, Message(key, Envelope(<<b[i]>>))),
                          failAt)

otlpMarshal(b, failAt) == OtlpLoop(b, 1, <<>>, failAt)

\* jaegertranslator.InternalTracesToJaegerProto: one Jaeger batch per
\* resource group, holding the group's spans in order
InternalTracesToJaegerProto(b) ==
    [i \in 1..Len(b) |-> [process |-> i, spans |-> SpansOfRS(b[i], 1)]]

\* jaegerproto.TraceID.String() of the 16 bytes of a trace id: 16 hex digits
\* when the high 8 bytes are zero, else 32
JaegerTraceIDString(t) ==
    LET h == HexEncode(t.id)
    IN IF \A i \in 1..(traceIDSize \div 2) : t.id[i] = 0
       THEN SubSeq(h, traceIDSize + 1, 2 * traceIDSize)
       ELSE h

\* j.marshaller.marshall(span), span.Process set: the bytes
JaegerBytes(span, process) == [span |-> span.traceID, process |-> process]

\* consumererror.CombineErrors(errs)
CombineErrors(errs) == IF Len(errs) = 0 THEN NoErr ELSE Err("combined")

\* consumererror.Permanent(err)
Permanent(err) == [err EXCEPT !.permanent = TRUE]

\* The inner loop of jaegerMarshaller.Marshal: acc is [messages, errs]
RECURSIVE JaegerSpans(_, _, _)
JaegerSpans(jb, k, acc) ==
    IF k > Len(jb.spans) THEN acc
    ELSE LET span == jb.spans[k]
         IN IF ~span.ok
            THEN JaegerSpans(jb, k + 1,
                     [acc EXCEPT !.errs = Append(acc.errs, Err("marshall"))])
            ELSE JaegerSpans(jb, k + 1,
                     [acc EXCEPT !.messages =
                         Append(acc.messages,
                                Message(JaegerTraceIDString(span.traceID),
                                        JaegerBytes(span, jb.process)))])

\* The outer loop of jaegerMarshaller.Marshal
RECURSIVE JaegerBatches(_, _, _)
JaegerBatches(batches, i, acc) ==
    IF i > Len(batches) THEN acc
    ELSE JaegerBatches(batches, i + 1, JaegerSpans(batches[i], 1, acc))

\* jaegerMarshaller.Marshal giving up at the first span that fails
jaegerMarshalAllOrNothing(b, xlateOK) ==
    LET acc == JaegerBatches(InternalTracesToJaegerProto(b), 1,
                             [messages |-> <<>>, errs |-> <<>>])
    IN IF ~xlateOK
       THEN [msgs |-> <<>>, err |-> Err("translate"), failed |-> 0, fault |-> FALSE]
       ELSE IF Len(acc.errs) > 0
       THEN [msgs |-> <<>>, err |-> Err("marshall"), failed |-> 1, fault |-> FALSE]
       ELSE [msgs |-> acc.messages, err |-> NoErr, failed |-> 0, fault |-> FALSE]

\* jaegerMarshaller.Marshal; the translator fails when ~xlateOK
jaegerMarshal(b, xlateOK) ==
    LET acc == JaegerBatches(InternalTracesToJaegerProto(b), 1,
                             [messages |-> <<>>, errs |-> <<>>])
    IN IF ~xlateOK
       THEN [msgs |-> <<>>, err |-> Err("translate"), failed |-> 0, fault |-> FALSE]
       ELSE [msgs |-> acc.messages, err |-> CombineErrors(acc.errs),
             failed |-> Len(acc.errs), fault |-> FALSE]

\* e.marshaller.Marshal(td, e.topic) for the marshaller configured
MarshalWith(m, b, failAt, xlateOK) ==
    IF m = "otlp_proto"
    THEN LET r == otlpMarshal(b, failAt)
         IN [msgs |-> r.msgs, err |-> r.err, failed |-> 0, fault |-> r.fault]
    ELSE jaegerMarshal(b, xlateOK)

\* traceDataPusher reporting the messages that were not delivered
traceDataPusherPerMessage(b, m, failAt, xlateOK, sendOK) ==
    LET r == MarshalWith(m, b, failAt, xlateOK)
        tr == TracesOf(b)
        o == [Out("traceDataPusher") EXCEPT
                 !.marshaller = m, !.msgs = r.msgs, !.merr = r.err,
                 !.failed = r.failed, !.sendOK = sendOK]
    IN IF r.fault THEN [o EXCEPT !.fault = TRUE]
       ELSE IF r.err # NoErr
       THEN [o EXCEPT !.dropped = SpanCount(tr.heap, tr.t),
                      !.err = Permanent(r.err)]
       ELSE IF ~sendOK
       THEN [o EXCEPT !.called = TRUE, !.handed = r.msgs,
                      !.dropped = Len(r.msgs), !.err = Err("send")]
       ELSE [o EXCEPT !.called = TRUE, !.handed = r.msgs]

\* kafkaTracesProducer.traceDataPusher: marshaller m, SendMessages
\* succeeding or not
traceDataPusher(b, m, failAt, xlateOK, sendOK) ==
    LET r == MarshalWith(m, b, failAt, xlateOK)
        tr == TracesOf(b)
        o == [Out("traceDataPusher") EXCEPT
                 !.marshaller = m, !.msgs = r.msgs, !.merr = r.err,
                 !.failed = r.failed, !.sendOK = sendOK]
    IN IF r.fault THEN [o EXCEPT !.fault = TRUE]
       ELSE IF r.err # NoErr
       THEN [o EXCEPT !.dropped = SpanCount(tr.heap, tr.t),
                      !.err = Permanent(r.err)]
       ELSE IF ~sendOK
       THEN [o EXCEPT !.called = TRUE, !.handed = r.msgs,
                      !.dropped = SpanCount(tr.heap, tr.t), !.err = Err("send")]
       ELSE [o EXCEPT !.called = TRUE, !.handed = r.msgs]

\* otlpMetricsPbMarshaller.Marshal / otlpLogsPbMarshaller.Marshal: one
\* message holding the whole request, or the codec's error
otlpMarshalWhole(n, marshalOK) ==
    IF marshalOK
    THEN [msgs |-> <<[value |-> [items |-> n]]>>, err |-> NoErr]
    ELSE [msgs |-> <<>>, err |-> Err("marshal")]

\* producerMessages(messages, topic)
producerMessages(messages) ==
    [i \in 1..Len(messages) |-> Message(<<>>, messages[i].value)]

\* producerLogMessages(messages, topic, key): the key is read out of the
\* message's JSON
producerLogMessages(messages) ==
    [i \in 1..Len(messages) |-> Message("messageKey", messages[i].value)]

\* kafkaMetricsProducer.metricsDataPusher for a batch of n metrics
metricsDataPusher(n, marshalOK, sendOK) ==
    LET r == otlpMarshalWhole(n, marshalOK)
        o == [Out("metricsDataPusher") EXCEPT
                 !.marshaller = "otlp_proto", !.msgs = r.msgs, !.merr = r.err,
                 !.sendOK = sendOK, !.items = n]
    IN IF r.err # NoErr
       THEN [o EXCEPT !.dropped = n, !.err = Permanent(r.err)]
       ELSE IF ~sendOK
       THEN [o EXCEPT !.called = TRUE, !.handed = producerMessages(r.msgs),
                      !.dropped = n, !.err = Err("send")]
       ELSE [o EXCEPT !.called = TRUE, !.handed = producerMessages(r.msgs)]

\* kafkaLogsProducer.logsDataPusher for a batch of n log records
logsDataPusher(n, marshalOK, sendOK) ==
    LET r == otlpMarshalWhole(n, marshalOK)
        o == [Out("logsDataPusher") EXCEPT
                 !.marshaller = "otlp_proto", !.msgs = r.msgs, !.merr = r.err,
                 !.sendOK = sendOK, !.items = n]
    IN IF r.err # NoErr
       THEN [o EXCEPT !.dropped = n, !.err = Permanent(r.err)]
       ELSE IF ~sendOK
       THEN [o EXCEPT !.called = TRUE, !.handed = producerLogMessages(r.msgs),
                      !.dropped = n, !.err = Err("send")]
       ELSE [o EXCEPT !.called = TRUE, !.handed = producerLogMessages(r.msgs)]

(***************************************************************************)
(* Specification SpecKafka: a batch of spans, then any calls of the two    *)
(* trace marshallers, of SpanCount and of the three pushers, with the      *)
(* codec, the translator and the producer succeeding or failing.           *)
(***************************************************************************)
Marshallers == {"otlp_proto", "jaeger_proto"}

InitKafka ==
    /\ InitTr
    /\ tid = ZeroValue
    /\ that = ZeroValue
    /\ last = Call("New", <<>>, FALSE)
    /\ eq = "none"
    /\ status = ZeroStatus
    /\ calls = <<>>
    /\ batch \in Batches
    /\ outcome = NoOut

OtlpMarshalAct ==
    /\ \E failAt \in 0..Len(batch) :
         LET r == otlpMarshal(batch, failAt)
         IN outcome' = [Out("otlpMarshal") EXCEPT
                           !.marshaller = "otlp_proto", !.msgs = r.msgs,
                           !.err = r.err, !.merr = r.err, !.fault = r.fault]
    /\ UNCHANGED <<status, calls, batch>>
    /\ UNCHANGED <<idVars, trVars>>

JaegerMarshalAct ==
    /\ \E xlateOK \in BOOLEAN :
         LET r == jaegerMarshal(batch, xlateOK)
         IN outcome' = [Out("jaegerMarshal") EXCEPT
                           !.marshaller = "jaeger_proto", !.msgs = r.msgs,
                           !.err = r.err, !.merr = r.err, !.failed = r.failed]
    /\ UNCHANGED <<status, calls, batch>>
    /\ UNCHANGED <<idVars, trVars>>

SpanCountAct ==
    /\ LET tr == TracesOf(batch)
       IN outcome' = [Out("SpanCount") EXCEPT !.items = SpanCount(tr.heap, tr.t)]
    /\ UNCHANGED <<status, calls, batch>>
    /\ UNCHANGED <<idVars, trVars>>

TraceDataPusherAct ==
    /\ \E m \in Marshallers, sendOK \in BOOLEAN :
         \/ /\ m = "otlp_proto"
            /\ \E failAt \in 0..Len(batch) :
                 outcome' = traceDataPusher(batch, m, failAt, TRUE, sendOK)
         \/ /\ m = "jaeger_proto"
            /\ \E xlateOK \in BOOLEAN :
                 outcome' = traceDataPusher(batch, m, 0, xlateOK, sendOK)
    /\ UNCHANGED <<status, calls, batch>>
    /\ UNCHANGED <<idVars, trVars>>

MetricsDataPusherAct ==
    /\ \E n \in 0..MaxItems, marshalOK \in BOOLEAN, sendOK \in BOOLEAN :
         outcome' = metricsDataPusher(n, marshalOK, sendOK)
    /\ UNCHANGED <<status, calls, batch>>
    /\ UNCHANGED <<idVars, trVars>>

LogsDataPusherAct ==
    /\ \E n \in 0..MaxItems, marshalOK \in BOOLEAN, sendOK \in BOOLEAN :
         outcome' = logsDataPusher(n, marshalOK, sendOK)
    /\ UNCHANGED <<status, calls, batch>>
    /\ UNCHANGED <<idVars, trVars>>

NextKafka ==
    \/ OtlpMarshalAct
    \/ JaegerMarshalAct
    \/ SpanCountAct
    \/ TraceDataPusherAct
    \/ MetricsDataPusherAct
    \/ LogsDataPusherAct

SpecKafka == InitKafka /\ [][NextKafka]_vars

(***************************************************************************)
(* Properties of the Kafka exporter and of SpanCount                       *)
(***************************************************************************)
\* The positions <<i, j, k>> of the spans of batch b
SpanPositions(b) ==
    {<<i, j, k>> \in (1..MaxBatchRS) \X (1..MaxBatchILS) \X (1..MaxBatchSpans) :
        /\ i <= Len(b)
        /\ j <= Len(b[i].ils)
        /\ k <= Len(b[i].ils[j].spans)}

\* C11: whatever the resource groups of the batch hold, when the codec
\* serializes every request otlpTracesPbMarshaller.Marshal returns one message
\* per resource group, in order, message i carrying resource group i alone in
\* an export envelope, keyed by the hex identifier of the trace id of the
\* group's first span and without a key when that trace id is empty.
C11_OneMessagePerResourceGroup ==
    (outcome.op = "otlpMarshal" /\ outcome.err = NoErr) =>
        /\ ~outcome.fault
        /\ Len(outcome.msgs) = Len(batch)
        /\ \A i \in 1..Len(batch) :
              /\ outcome.msgs[i].value = Envelope(<<batch[i]>>)
              /\ LET spans == SpansOfRS(batch[i], 1)
                 IN Len(spans) > 0 =>
                      outcome.msgs[i].key =
                          IF IsEmpty(spans[1].traceID) THEN <<>>
                          ELSE HexString(spans[1].traceID)

\* The messages jaegerMarshaller.Marshal owes: one per serializable span
ExpectedJaeger(b) ==
    LET js == [i \in 1..Len(b) |->
                 [k \in 1..Len(SpansOfRS(b[i], 1)) |->
                     [span |-> SpansOfRS(b[i], 1)[k], process |-> i]]]
        flat[i \in 0..Len(b)] == IF i = 0 THEN <<>> ELSE flat[i - 1] \o js[i]
        good == SelectSeq(flat[Len(b)], LAMBDA x : x.span.ok)
    IN [n \in 1..Len(good) |->
           Message(JaegerTraceIDString(good[n].span.traceID),
                   [span |-> good[n].span.traceID, process |-> good[n].process])]

\* C12: when the translation succeeds, jaegerMarshaller.Marshal returns one
\* message for every span that serialized, in traversal order and keyed by the
\* span's own trace id, and an error that is non-nil exactly when some span
\* failed; messages plus collected failures number the spans of the batch.
C12_PartialFailureKeepsMessages ==
    (outcome.op = "jaegerMarshal" /\ outcome.err # Err("translate")) =>
        /\ outcome.msgs = ExpectedJaeger(batch)
        /\ (outcome.err # NoErr) <=>
              (\E p \in SpanPositions(batch) :
                  ~batch[p[1]].ils[p[2]].spans[p[3]].ok)
        /\ Len(outcome.msgs) + outcome.failed = Cardinality(SpanPositions(batch))

\* C12 witness: a batch some of whose spans failed while a later one was
\* still emitted.
C12_Witness ==
    /\ outcome.op = "jaegerMarshal"
    /\ outcome.failed > 0
    /\ Len(outcome.msgs) > 0
    /\ ~SpansOf(batch, 1)[1].ok

\* C13: when the marshaller traceDataPusher uses returns messages together
\* with an error, these messages are still handed to SendMessages.
C13_PartialBatchStillSent ==
    (/\ outcome.op = "traceDataPusher"
     /\ ~outcome.fault
     /\ outcome.merr # NoErr
     /\ Len(outcome.msgs) > 0)
        => (outcome.called /\ outcome.handed = outcome.msgs)

\* The number of items of the batch the last pusher call was handed
ItemsPushed ==
    IF outcome.op = "traceDataPusher" THEN Cardinality(SpanPositions(batch))
    ELSE outcome.items

\* C14: a pusher returns (0, nil) exactly when marshalling and SendMessages
\* both succeeded; when SendMessages reports an error it returns that error
\* and the count of all items of the batch.
C14_AllOrNothing ==
    (/\ outcome.op \in {"traceDataPusher", "metricsDataPusher", "logsDataPusher"}
     /\ ~outcome.fault) =>
        /\ (outcome.dropped = 0 /\ outcome.err = NoErr) <=>
              (outcome.merr = NoErr /\ outcome.sendOK)
        /\ (outcome.called /\ ~outcome.sendOK) =>
              (outcome.err = Err("send") /\ outcome.dropped = ItemsPushed)
        /\ outcome.dropped \in {0, ItemsPushed}

\* C14 witness: SendMessages failed on several messages that carry more
\* spans than there are messages, and every span was counted.
C14_Witness ==
    /\ outcome.op = "traceDataPusher"
    /\ outcome.called /\ ~outcome.sendOK
    /\ Len(outcome.handed) > 0
    /\ outcome.dropped > Len(outcome.handed)

\* C17: SpanCount is the number of spans over every (resource group,
\* instrumentation-library group) pair, and is additive: however the batch is
\* split into two sequences A and B, SpanCount(A \o B) is
\* SpanCount(A) + SpanCount(B).
C17_SpanCountAdditive ==
    outcome.op = "SpanCount" =>
        /\ outcome.items = Cardinality(SpanPositions(batch))
        /\ \A k \in 0..Len(batch) :
              LET A == TracesOf(SubSeq(batch, 1, k))
                  B == TracesOf(SubSeq(batch, k + 1, Len(batch)))
              IN outcome.items = SpanCount(A.heap, A.t) + SpanCount(B.heap, B.t)

\* C17 witness: a count taken over two resource groups, one of them with
\* spans in its second instrumentation-library group.
C17_Witness ==
    /\ outcome.op = "SpanCount"
    /\ Len(batch) = 2
    /\ outcome.items = MaxBatchTotal
    /\ \E i \in 1..2 : Len(batch[i].ils) = 2 /\ Len(batch[i].ils[2].spans) > 0

=============================================================================
